---- MODULE Spec2Model ----
(***************************************************************************)
(* Model of pages/Prediction.py (the live version, lines 233-319): the     *)
(* "Fetch & Predict" handler of the dividend predictor and its guarded     *)
(* division safe_div.                                                      *)
(*                                                                         *)
(* Values of line items are Python objects.  Each is a record              *)
(*   [k, n, d] with k in "num" (the finite float n/d, in lowest terms),    *)
(*   "nan", "inf" (n is the sign), "none" (None), "str" (a non-numeric,    *)
(*   non-empty string such as "n/a") and "raise" (an exception escaped).   *)
(***************************************************************************)
EXTENDS Integers, Sequences, FiniteSets, TLC

VARIABLES
    pc,             \* position of the handler
    ticker_input,   \* st.text_input
    industry,       \* st.selectbox("Select Industry")
    inc, bal, cf,   \* the three statements (DataFrames)
    ratios,         \* the dict of line 269
    input_df,       \* the one-row DataFrame of lines 280-281
    y_pred,         \* model.predict(input_df)
    y_proba,        \* model.predict_proba(input_df)[0]
    shown,          \* what the page shows: error banner, label, probabilities
    session,        \* st.session_state
    div_a, div_b,   \* operands of a direct call of safe_div
    div_out,        \* its result
    div_pc          \* "call" before the call, "ret" after it

vars == <<pc, ticker_input, industry, inc, bal, cf, ratios, input_df,
          y_pred, y_proba, shown, session, div_a, div_b, div_out, div_pc>>

pipeVars == <<pc, ticker_input, industry, inc, bal, cf, ratios, input_df,
              y_pred, y_proba, shown, session>>

divVars == <<div_a, div_b, div_out, div_pc>>

----------------------------------------------------------------------------
(* Bounds *)

\* finite operands of the direct calls of safe_div range over -MaxVal..MaxVal
MaxVal == 3

\* number of reporting periods (columns) of a non-empty statement
NumPeriods == 2

\* largest finite float, scaled down (sys.float_info.max in the program)
FloatMax == 10000

----------------------------------------------------------------------------
(* Python values *)

Abs(x) == IF x < 0 THEN -x ELSE x

Sign(x) == IF x < 0 THEN -1 ELSE IF x > 0 THEN 1 ELSE 0

RECURSIVE GCD(_, _)
GCD(x, y) == IF y = 0 THEN x ELSE GCD(y, x % y)

NaN == [k |-> "nan", n |-> 0, d |-> 1]

None == [k |-> "none", n |-> 0, d |-> 1]

Str == [k |-> "str", n |-> 0, d |-> 1]

Raise == [k |-> "raise", n |-> 0, d |-> 1]

Inf(s) == [k |-> "inf", n |-> s, d |-> 1]

\* the float x/y (y # 0): lowest terms, or an infinity when out of range
Num(x, y) ==
    LET g == GCD(Abs(x), Abs(y))
        s == Sign(y)
    IN  IF Abs(x) > FloatMax * Abs(y)
        THEN Inf(Sign(x) * s)
        ELSE [k |-> "num", n |-> (s * x) \div g, d |-> Abs(y) \div g]

Zero == Num(0, 1)

IsFinite(v) == v.k = "num"

\* bool(v)
Truthy(v) ==
    CASE v.k = "none" -> FALSE
      [] v.k = "num"  -> v.n # 0
      [] OTHER        -> TRUE

\* v != 0
NeZero(v) == ~(v.k = "num" /\ v.n = 0)

\* float(v): ValueError for a non-numeric string, TypeError for None
ToFloat(v) == IF v.k \in {"str", "none", "raise"} THEN Raise ELSE v

\* x / y on floats
FDiv(x, y) ==
    CASE x.k = "nan" \/ y.k = "nan"      -> NaN
      [] x.k = "inf" /\ y.k = "inf"      -> NaN
      [] x.k = "inf" /\ y.k = "num"      ->
            IF y.n = 0 THEN Raise ELSE Inf(x.n * Sign(y.n))
      [] x.k = "num" /\ y.k = "inf"      -> Zero
      [] OTHER                           ->
            IF y.n = 0 THEN Raise ELSE Num(x.n * y.d, x.d * y.n)

\* x + y on the objects a statement holds
Add(x, y) ==
    CASE x.k = "raise" \/ y.k = "raise"  -> Raise
      [] x.k = "none" \/ y.k = "none"    -> Raise
      [] x.k = "str" /\ y.k = "str"      -> Str
      [] x.k = "str" \/ y.k = "str"      -> Raise
      [] x.k = "nan" \/ y.k = "nan"      -> NaN
      [] x.k = "inf" /\ y.k = "inf"      -> IF x.n = y.n THEN x ELSE NaN
      [] x.k = "inf"                     -> x
      [] y.k = "inf"                     -> y
      [] OTHER                           -> Num(x.n * y.d + y.n * x.d, x.d * y.d)

\* float(a) / float(b) if a and b and b != 0 else 0, any exception -> 0
safe_div(a, b) ==
    IF Truthy(a) /\ Truthy(b) /\ NeZero(b)
    THEN LET fa == ToFloat(a)
             fb == ToFloat(b)
             q  == IF fa.k = "raise" \/ fb.k = "raise"
                   THEN Raise ELSE FDiv(fa, fb)
         IN  IF q.k = "raise" THEN Zero ELSE q
    ELSE Zero

----------------------------------------------------------------------------
(* Direct calls of safe_div *)

DivInputs ==
    {Num(x, 1) : x \in -MaxVal..MaxVal}
        \cup {Num(1, 2), Num(FloatMax, 1), NaN, None, Str, Inf(1), Inf(-1)}

SafeDivCall ==
    /\ div_pc = "call"
    /\ div_out' = safe_div(div_a, div_b)
    /\ div_pc' = "ret"
    /\ UNCHANGED <<div_a, div_b>>
    /\ UNCHANGED pipeVars

----------------------------------------------------------------------------
(* DataFrames: row labels, column labels, and a value per (row, column) *)

Range(s) == {s[i] : i \in 1..Len(s)}

IncItems == <<"net income", "gross profit", "total revenue", "ebit">>

BalItems == <<"total stockholder equity", "total assets", "cash",
              "short/long term debt", "long term debt", "total liabilities",
              "inventory">>

CfItems == <<"dividends paid", "free cash flow",
             "total cash from operating activities", "capital expenditures">>

\* the line items the handler reads
UsedKeys == (Range(IncItems) \cup Range(BalItems) \cup Range(CfItems))
                \ {"ebit", "inventory", "capital expenditures"}

\* the line items read with .get(key, [0]); the others are read with [key]
OptionalKeys == {"dividends paid", "free cash flow",
                 "short/long term debt", "long term debt"}

PeriodLabels == <<"2024Q4", "2024Q3", "2024Q2", "2024Q1">>

\* value of every line item in the periods before the most recent one
Older == Num(9, 1)

EmptyFn == [x \in {} |-> Zero]

NoFrame == [index |-> <<>>, columns |-> <<>>, data |-> EmptyFn]

\* a statement as the source delivers it: one row per line item of keys
\* that items has, one column per period, most recent period first
MkFrame(keys, items, n) ==
    LET rows == SelectSeq(keys, LAMBDA k : k \in DOMAIN items)
        cols == SubSeq(PeriodLabels, 1, n)
    IN  [index   |-> rows,
         columns |-> cols,
         data    |-> [r \in Range(rows) |->
                        [c \in Range(cols) |->
                            IF c = PeriodLabels[1] THEN items[r] ELSE Older]]]

\* df.empty
IsEmpty(df) == Len(df.index) = 0 \/ Len(df.columns) = 0

\* df.T
Transpose(df) ==
    [index   |-> df.columns,
     columns |-> df.index,
     data    |-> [r \in Range(df.columns) |->
                    [c \in Range(df.index) |-> df.data[c][r]]]]

\* df[key][0]: KeyError when key is no column, else the first row's value
Item(df, key) ==
    IF key \in Range(df.columns) /\ Len(df.index) > 0
    THEN df.data[df.index[1]][key]
    ELSE Raise

\* df.get(key, [0])[0]
GetItem(df, key) ==
    IF key \in Range(df.columns) THEN Item(df, key) ELSE Zero

----------------------------------------------------------------------------
(* The ratios of lines 269-278 *)

RatioSeq == <<"dpr", "roe", "roa", "GProf", "npm", "fcf_ocf", "cash_debt",
              "de_ratio">>

RatioNames == Range(RatioSeq)

\* a call safe_div(x, y) whose arguments are evaluated first: an exception
\* in an argument escapes before safe_div is entered
Call(x, y) ==
    IF x.k = "raise" \/ y.k = "raise" THEN Raise ELSE safe_div(x, y)

NetIncome(i) == Item(i, "net income")

Equity(b) == Item(b, "total stockholder equity")

TotalDebt(b) ==
    Add(GetItem(b, "short/long term debt"), GetItem(b, "long term debt"))

DeNumerator(b) == Item(b, "total liabilities")

Ratio(r, i, b, c) ==
    CASE r = "dpr"       -> Call(GetItem(c, "dividends paid"), NetIncome(i))
      [] r = "roe"       -> Call(NetIncome(i), Equity(b))
      [] r = "roa"       -> Call(NetIncome(i), Item(b, "total assets"))
      [] r = "GProf"     -> Call(Item(i, "gross profit"),
                                 Item(i, "total revenue"))
      [] r = "npm"       -> Call(NetIncome(i), Item(i, "total revenue"))
      [] r = "fcf_ocf"   -> Call(GetItem(c, "free cash flow"),
                                 Item(c, "total cash from operating activities"))
      [] r = "cash_debt" -> Call(Item(b, "cash"), TotalDebt(b))
      [] r = "de_ratio"  -> Call(DeNumerator(b), Equity(b))

BuildRatios(i, b, c) == [r \in RatioNames |-> Ratio(r, i, b, c)]

Raises(rec) == \E r \in DOMAIN rec : rec[r].k = "raise"

\* dropna(axis=1) for fillna(0)
FillNaDrop(rec) ==
    [r \in {x \in DOMAIN rec : rec[x].k \notin {"nan", "none"}} |-> rec[r]]

\* pd.DataFrame([ratios]) followed by fillna(0, inplace=True)
FillNa(rec) ==
    [r \in DOMAIN rec |-> IF rec[r].k \in {"nan", "none"} THEN Zero ELSE rec[r]]

----------------------------------------------------------------------------
(* The classifier and the report of lines 296-306 *)

Classes == {-1, 0, 1}

label_map ==
    [c \in Classes |->
        CASE c = -1 -> "Decrease" [] c = 0 -> "No Change" [] c = 1 -> "Increase"]

Labels == {label_map[c] : c \in Classes}

\* s[i] of Python: a negative index counts from the end
PyIndex(s, i) == IF i < 0 THEN s[Len(s) + i + 1] ELSE s[i + 1]

\* {-1: y_proba[-1], 0: y_proba[0], 1: y_proba[1]}
proba_map(p) == [c \in Classes |-> PyIndex(p, c)]

\* the bar chart: one bar per label, label_map[k] for each k of proba_map
ProbaChart(p) ==
    [l \in Labels |-> proba_map(p)[CHOOSE c \in Classes : label_map[c] = l]]

\* probability vectors (in tenths) a classifier with classes_ = [-1, 0, 1]
\* returns: entry 1 for class -1, entry 2 for class 0, entry 3 for class 1
ProbaVectors == {<<7, 2, 1>>, <<1, 3, 6>>}

NoChart == [l \in Labels |-> -1]

Blank == [error |-> "", warning |-> FALSE, label |-> "", proba |-> NoChart]

NoSession ==
    [prediction_label |-> "", input_df |-> EmptyFn, ticker |-> "",
     industry |-> ""]

----------------------------------------------------------------------------
(* Inputs of a request *)

Tickers == {"AAPL", "GE"}

Industries == {"Consumer", "Energy"}

Stmts == {"inc", "bal", "cf"}

\* shape of a delivered statement: all rows and periods, no period, no row
Shapes == [Stmts -> {"full", "noperiods", "norows"}]

Full == [s \in Stmts |-> "full"]

AllKeys == Range(IncItems) \cup Range(BalItems) \cup Range(CfItems)

\* net income 100, revenue 500, gross profit 200, equity 1000, assets 2000,
\* short/long term debt 50, long term debt 150, cash 80, dividends 20,
\* operating cash flow 120, free cash flow 90
BaseItems ==
    [k \in AllKeys |->
        CASE k = "net income"                -> Num(100, 1)
          [] k = "gross profit"              -> Num(200, 1)
          [] k = "total revenue"             -> Num(500, 1)
          [] k = "total stockholder equity"  -> Num(1000, 1)
          [] k = "total assets"              -> Num(2000, 1)
          [] k = "cash"                      -> Num(80, 1)
          [] k = "short/long term debt"      -> Num(50, 1)
          [] k = "long term debt"            -> Num(150, 1)
          [] k = "total liabilities"         -> Num(600, 1)
          [] k = "dividends paid"            -> Num(20, 1)
          [] k = "free cash flow"            -> Num(90, 1)
          [] k = "total cash from operating activities" -> Num(120, 1)
          [] OTHER                           -> Num(5, 1)]

Restrict(f, S) == [k \in S |-> f[k]]

PerturbValues == {Zero, NaN, None, Str, Inf(1), Num(-100, 1)}

\* every used line item either zero or missing (the other rows stay)
ZeroOrAbsent ==
    {[k \in (AllKeys \ UsedKeys) \cup P |->
        IF k \in UsedKeys THEN Zero ELSE BaseItems[k]] : P \in SUBSET UsedKeys}

\* the base scenario with at most one used line item missing and at most one
\* other line item zero, NaN, None, a string, infinite or negative
Variants ==
    {Restrict([BaseItems EXCEPT ![k] = v], AllKeys \ D) :
        k \in UsedKeys, v \in PerturbValues,
        D \in {{}} \cup {{o} : o \in UsedKeys}}

RichInputs ==
    {[items |-> BaseItems, shape |-> sh] : sh \in Shapes}
      \cup {[items |-> z, shape |-> Full] : z \in Variants}
      \cup {[items |-> Restrict(BaseItems, AllKeys \ {k}), shape |-> Full] :
                k \in UsedKeys}
      \cup {[items |-> z, shape |-> Full] : z \in ZeroOrAbsent}

FewInputs ==
    {[items |-> BaseItems, shape |-> Full],
     [items |-> BaseItems, shape |-> [Full EXCEPT !["bal"] = "noperiods"]],
     [items |-> [BaseItems EXCEPT !["net income"] = NaN], shape |-> Full],
     [items |-> [BaseItems EXCEPT !["long term debt"] = None], shape |-> Full],
     [items |-> Restrict(BaseItems, AllKeys \ {"total assets"}), shape |-> Full],
     [items |-> [k \in AllKeys |-> Zero], shape |-> Full]}

\* what si.get_income_statement etc. deliver for an input
Deliver(keys, in, s) ==
    CASE in.shape[s] = "full"      -> MkFrame(keys, in.items, NumPeriods)
      [] in.shape[s] = "noperiods" -> MkFrame(keys, in.items, 0)
      [] in.shape[s] = "norows"    -> MkFrame(keys, EmptyFn, NumPeriods)

----------------------------------------------------------------------------
(* The handler of the "Fetch & Predict" button, lines 253-319 *)

RestPcs == {"idle", "stopped", "error", "done"}

\* lines 253-261: a run starts on a cleared page and fetches the statements
Fetch(inputs) ==
    \E t \in Tickers, ind \in Industries, in \in inputs :
        /\ ticker_input' = t
        /\ industry' = ind
        /\ inc' = Deliver(IncItems, in, "inc")
        /\ bal' = Deliver(BalItems, in, "bal")
        /\ cf' = Deliver(CfItems, in, "cf")
        /\ ratios' = EmptyFn
        /\ input_df' = EmptyFn
        /\ y_pred' = <<>>
        /\ y_proba' = <<>>
        /\ shown' = Blank
        /\ pc' = "fetched"
        /\ UNCHANGED session
        /\ UNCHANGED divVars

\* the first click of a session, over the whole input family
Click ==
    /\ pc = "idle"
    /\ Fetch(RichInputs)

\* any click, over the reduced input family
ClickAgain ==
    /\ pc \in RestPcs
    /\ Fetch(FewInputs)

\* lines 255-257 raise (no such ticker, no connection): line 318-319
FetchFails ==
    /\ pc \in RestPcs
    /\ \E t \in Tickers, ind \in Industries :
        /\ ticker_input' = t
        /\ industry' = ind
    /\ inc' = NoFrame /\ bal' = NoFrame /\ cf' = NoFrame
    /\ ratios' = EmptyFn
    /\ input_df' = EmptyFn
    /\ y_pred' = <<>>
    /\ y_proba' = <<>>
    /\ shown' = [Blank EXCEPT !.error = "prediction"]
    /\ pc' = "error"
    /\ UNCHANGED session
    /\ UNCHANGED divVars

\* the gate with "and" for "or"
GateAll(i, b, c) == IsEmpty(i) /\ IsEmpty(b) /\ IsEmpty(c)

\* inc.empty or bal.empty or cf.empty
Gate(i, b, c) == IsEmpty(i) \/ IsEmpty(b) \/ IsEmpty(c)

\* lines 263-265: st.error and st.stop()
GateStops ==
    /\ pc = "fetched"
    /\ Gate(inc, bal, cf)
    /\ shown' = [shown EXCEPT !.error = "missing"]
    /\ pc' = "stopped"
    /\ UNCHANGED <<ticker_input, industry, inc, bal, cf, ratios, input_df,
                   y_pred, y_proba, session>>
    /\ UNCHANGED divVars

\* lines 263-267: the gate passes, the statements are transposed
GatePasses ==
    /\ pc = "fetched"
    /\ ~Gate(inc, bal, cf)
    /\ inc' = Transpose(inc)
    /\ bal' = Transpose(bal)
    /\ cf' = Transpose(cf)
    /\ pc' = "validated"
    /\ UNCHANGED <<ticker_input, industry, ratios, input_df, y_pred, y_proba,
                   shown, session>>
    /\ UNCHANGED divVars

\* lines 269-278, a lookup or the sum raises: lines 318-319
RatiosFail ==
    /\ pc = "validated"
    /\ Raises(BuildRatios(inc, bal, cf))
    /\ shown' = [shown EXCEPT !.error = "prediction"]
    /\ pc' = "error"
    /\ UNCHANGED <<ticker_input, industry, inc, bal, cf, ratios, input_df,
                   y_pred, y_proba, session>>
    /\ UNCHANGED divVars

\* lines 269-278
ComputeRatios ==
    /\ pc = "validated"
    /\ ~Raises(BuildRatios(inc, bal, cf))
    /\ ratios' = BuildRatios(inc, bal, cf)
    /\ pc' = "ratios"
    /\ UNCHANGED <<ticker_input, industry, inc, bal, cf, input_df, y_pred,
                   y_proba, shown, session>>
    /\ UNCHANGED divVars

\* whether the handler warns about replaced entries: it has no such branch
Warns(before, after) == FALSE

\* lines 280-283
Sanitize ==
    /\ pc = "ratios"
    /\ input_df' = FillNa(ratios)
    /\ shown' = [shown EXCEPT !.warning = Warns(ratios, FillNa(ratios))]
    /\ pc' = "sanitized"
    /\ UNCHANGED <<ticker_input, industry, inc, bal, cf, ratios, y_pred,
                   y_proba, session>>
    /\ UNCHANGED divVars

\* lines 285-297 raise (no model file, the classifier rejects the input)
ClassifyFails ==
    /\ pc = "sanitized"
    /\ shown' = [shown EXCEPT !.error = "prediction"]
    /\ pc' = "error"
    /\ UNCHANGED <<ticker_input, industry, inc, bal, cf, ratios, input_df,
                   y_pred, y_proba, session>>
    /\ UNCHANGED divVars

\* lines 285-297: the model is loaded and given input_df
Classify ==
    /\ pc = "sanitized"
    /\ \E c \in Classes, p \in ProbaVectors :
        /\ y_pred' = <<c>>
        /\ y_proba' = p
    /\ pc' = "predicted"
    /\ UNCHANGED <<ticker_input, industry, inc, bal, cf, ratios, input_df,
                   shown, session>>
    /\ UNCHANGED divVars

\* lines 299-306
Report ==
    /\ pc = "predicted"
    /\ shown' = [shown EXCEPT !.label = label_map[y_pred[1]],
                              !.proba = ProbaChart(y_proba)]
    /\ pc' = "reported"
    /\ UNCHANGED <<ticker_input, industry, inc, bal, cf, ratios, input_df,
                   y_pred, y_proba, session>>
    /\ UNCHANGED divVars

\* the ticker is written only when the session has none
StoredKeepTicker(label, df, t, ind) ==
    [prediction_label |-> label, input_df |-> df,
     ticker |-> IF session.ticker = "" THEN t ELSE session.ticker,
     industry |-> ind]

Stored(label, df, t, ind) ==
    [prediction_label |-> label, input_df |-> df, ticker |-> t,
     industry |-> ind]

\* lines 308-316
Store ==
    /\ pc = "reported"
    /\ session' = Stored(label_map[y_pred[1]], input_df, ticker_input, industry)
    /\ pc' = "done"
    /\ UNCHANGED <<ticker_input, industry, inc, bal, cf, ratios, input_df,
                   y_pred, y_proba, shown>>
    /\ UNCHANGED divVars

Steps ==
    \/ FetchFails
    \/ GateStops
    \/ GatePasses
    \/ RatiosFail
    \/ ComputeRatios
    \/ Sanitize
    \/ ClassifyFails
    \/ Classify
    \/ Report
    \/ Store

PipeInit ==
    /\ pc = "idle"
    /\ ticker_input = "AAPL"
    /\ industry = "Consumer"
    /\ inc = NoFrame /\ bal = NoFrame /\ cf = NoFrame
    /\ ratios = EmptyFn
    /\ input_df = EmptyFn
    /\ y_pred = <<>>
    /\ y_proba = <<>>
    /\ shown = Blank
    /\ session = NoSession

DivIdle ==
    /\ div_a = Zero /\ div_b = Zero /\ div_out = Zero
    /\ div_pc = "none"

\* one run of the handler over the whole input family
Init == PipeInit /\ DivIdle

Next == Click \/ Steps

Spec == Init /\ [][Next]_vars

\* any number of runs of the handler over the reduced input family
NextSession == ClickAgain \/ Steps

SpecSession == Init /\ [][NextSession]_vars

\* direct calls of safe_div
InitDiv ==
    /\ PipeInit
    /\ div_a \in DivInputs
    /\ div_b \in DivInputs
    /\ div_out = Zero
    /\ div_pc = "call"

NextDiv == SafeDivCall

SpecDiv == InitDiv /\ [][NextDiv]_vars

----------------------------------------------------------------------------
(* Properties *)

\* the statements were delivered (the fetch did not raise)
Delivered == inc # NoFrame /\ bal # NoFrame /\ cf # NoFrame

\* at least one of the three statements is empty
AnyEmpty == IsEmpty(inc) \/ IsEmpty(bal) \/ IsEmpty(cf)

\* the handler is past the gate
PastGate == pc \notin {"idle", "fetched"}

\* the handler is past lines 269-278
PastRatios == pc \notin {"idle", "fetched", "validated"}

\* input_df has been given to model.predict
Handed == pc \in {"predicted", "reported", "done"}

\* C1: whenever at least one of the three delivered statements is empty,
\* the request ends at the gate with the missing-data error: no ratio and
\* no record exists, the classifier has not been called, nothing is
\* reported and the session holds no result.
C1_EmptyStatementStops ==
    (PastGate /\ Delivered /\ AnyEmpty) =>
        /\ pc = "stopped"
        /\ shown.error = "missing"
        /\ ratios = EmptyFn
        /\ input_df = EmptyFn
        /\ y_pred = <<>>
        /\ y_proba = <<>>
        /\ shown.label = ""
        /\ shown.proba = NoChart
        /\ session = NoSession

\* C1 witness: a request stopped at the gate with only the balance sheet empty
C1_Witness ==
    /\ pc = "stopped"
    /\ IsEmpty(bal) /\ ~IsEmpty(inc) /\ ~IsEmpty(cf)

\* C2: with three non-empty statements, building the ratio record never
\* fails: past lines 269-278 a complete record exists.
C2_BuildNeverFails ==
    (PastRatios /\ Delivered /\ ~AnyEmpty) =>
        /\ ratios # EmptyFn
        /\ \A r \in DOMAIN ratios : ratios[r].k # "raise"

\* C3: every entry of the record given to the classifier is a finite number.
C3_RecordFinite ==
    Handed => \A r \in DOMAIN input_df : IsFinite(input_df[r])

\* a and b are finite, non-null and non-zero
FiniteNonZero(v) == v.k = "num" /\ v.n # 0

\* C4: safe_div(a, b) returns a/b exactly when a and b are both finite,
\* non-null and non-zero, and 0 in every other case.
C4_SafeDivContract ==
    div_pc = "ret" =>
        IF FiniteNonZero(div_a) /\ FiniteNonZero(div_b)
        THEN /\ div_out.k = "num"
             /\ div_out.n * (div_a.d * div_b.n) = div_out.d * (div_a.n * div_b.d)
        ELSE div_out = Zero

\* extractField of the table: the most recent value, 0 when the line item
\* is missing, null or NaN
ExtractField(df, key) ==
    LET v == GetItem(df, key)
    IN  IF v.k \in {"none", "nan", "raise"} THEN Zero ELSE v

\* computeTotalDebt of the table
TableTotalDebt ==
    Add(ExtractField(bal, "short/long term debt"),
        ExtractField(bal, "long term debt"))

\* the pairing the table assigns to each ratio the handler produces
TableRatio(r) ==
    CASE r = "dpr"       -> safe_div(ExtractField(cf, "dividends paid"),
                                     ExtractField(inc, "net income"))
      [] r = "roe"       -> safe_div(ExtractField(inc, "net income"),
                                     ExtractField(bal, "total stockholder equity"))
      [] r = "roa"       -> safe_div(ExtractField(inc, "net income"),
                                     ExtractField(bal, "total assets"))
      [] r = "GProf"     -> safe_div(ExtractField(inc, "gross profit"),
                                     ExtractField(inc, "total revenue"))
      [] r = "npm"       -> safe_div(ExtractField(inc, "net income"),
                                     ExtractField(inc, "total revenue"))
      [] r = "fcf_ocf"   -> safe_div(ExtractField(cf, "free cash flow"),
                                     ExtractField(cf, "total cash from operating activities"))
      [] r = "cash_debt" -> safe_div(ExtractField(bal, "cash"), TableTotalDebt)
      [] r = "de_ratio"  -> safe_div(TableTotalDebt,
                                     ExtractField(bal, "total stockholder equity"))

\* C5: every ratio of the produced record is safeDivide of the numerator
\* and denominator the table assigns to it; de_ratio is total debt over
\* stockholders' equity, cash_debt is cash over total debt.
C5_RatiosFollowTable ==
    (PastRatios /\ ratios # EmptyFn) =>
        \A r \in DOMAIN ratios : ratios[r] = TableRatio(r)

Vocabulary ==
    {"dpr", "roe", "roa", "GProf", "npm", "fcf_ocf", "cash_debt", "cash_lt",
     "ocf_lct", "totdebt_invcap", "de_ratio", "debt_ebitda", "intcov_ratio",
     "curr_ratio", "cash_ratio", "quick_ratio"}

Absent(df, key) == key \notin Range(df.columns)

AllZeroOrAbsent ==
    \A k \in UsedKeys :
        /\ ~Absent(inc, k) => Item(inc, k) = Zero
        /\ ~Absent(bal, k) => Item(bal, k) = Zero
        /\ ~Absent(cf, k) => Item(cf, k) = Zero

\* C7: when every line item is zero or absent and the statements are not
\* empty, no error is raised and every ratio is 0.
C7_ZeroInputsZeroRatios ==
    (PastRatios /\ Delivered /\ ~AnyEmpty /\ AllZeroOrAbsent) =>
        /\ ratios # EmptyFn
        /\ \A r \in DOMAIN ratios : ratios[r] = Zero

\* C8: after the sanitization a warning has been emitted if and only if
\* some entry of the record was replaced by 0.
C8_WarningIffReplaced ==
    input_df # EmptyFn => (shown.warning <=> input_df # ratios)

\* the probability a classifier with classes_ = [-1, 0, 1] gives class c
ClassProba(p, c) == p[c + 2]

\* C9: the probability shown for each label is the classifier's probability
\* of that label's class, and the label shown is that of the predicted class.
C9_ProbabilitiesPerClass ==
    pc \in {"reported", "done"} =>
        /\ shown.label = label_map[y_pred[1]]
        /\ \A c \in Classes : shown.proba[label_map[c]] = ClassProba(y_proba, c)

\* C10: the session changes only in the last step of a request that passed
\* the gate and was classified, and then all four fields come from that
\* request; a step that ends a request with an error or at the gate leaves
\* the session as it was.
C10_SessionWrittenOnSuccess ==
    [][/\ (session' # session) =>
            /\ pc = "reported" /\ pc' = "done"
            /\ Delivered /\ ~AnyEmpty
            /\ y_pred # <<>>
            /\ shown.error = ""
            /\ session'.prediction_label = label_map[y_pred[1]]
            /\ session'.input_df = input_df
            /\ session'.ticker = ticker_input
            /\ session'.industry = industry
       /\ (pc' \in {"error", "stopped"}) => session' = session]_vars

\* C10 witness: a failed request for another ticker after a stored one
C10_Witness ==
    /\ pc \in {"error", "stopped"}
    /\ session # NoSession
    /\ session.ticker # ticker_input
    /\ session.industry # industry

====
